---- MODULE Spec2Model ----
(***************************************************************************)
(* Material reconciliation (Cruce-Material-SAP-Dinamico).                  *)
(*                                                                         *)
(* Two state machines share this module:                                   *)
(*   - Pooled mode:  cruce_material_sap_procesado_con_split                *)
(*                   (src/cruce_sap.py, duplicated in src/main.py)         *)
(*   - Matched mode: InventoryProcessor.run (src/inventory_processor.py)   *)
(* Each has its own specification (SpecPooled, SpecMatched); the variables *)
(* of the other machine stay at their idle values.                         *)
(*                                                                         *)
(* Column names keep the source's names with blanks removed:               *)
(*   "Planilla Cantidad" -> PlanillaCantidad, "SAP Antes" -> SAPAntes,     *)
(*   "SAP Restante" -> SAPRestante, "Cant Desc." -> CantDesc,              *)
(*   "CODIGO OBRA SGT" -> CODIGO_OBRA_SGT, "FECHA DESCAR SGT" -> FECHA.    *)
(***************************************************************************)
EXTENDS Integers, Sequences, FiniteSets, TLC

VARIABLES
    \* ---- Pooled mode ----
    p_pc,               \* position inside cruce_material_sap_procesado_con_split
    desc_columns,       \* df_desc_std.columns
    exist_columns,      \* df_exist_std.columns
    df_desc,            \* df_desc_std  (Demand table)
    df_exist,           \* df_exist_std (Supply table)
    df_merged,          \* df_merged after merge / sort
    loop_i,             \* position of the row loop in df_merged (1-based)
    stock_actual_item,  \* running balance of the current item
    processed_rows,     \* processed_rows (segments emitted so far)
    df_final,           \* returned table ("None" before return / on error)
    st_error,           \* message shown with st.error (NoMessage: none)
    \* ---- Matched mode (InventoryProcessor) ----
    m_pc,               \* position inside InventoryProcessor.run
    master_file,        \* rows of the Excel file at master_path
    dynamic_file,       \* rows of the Excel file at dynamic_path
    new_job_number,     \* self.new_job_number
    master_df,          \* self.master_df
    dynamic_df,         \* self.dynamic_df
    master_index,       \* self.master_index, in insertion order
    dyn_i,              \* position of the loop of process() in dynamic_df
    result_rows,        \* self.result_rows
    origin,             \* for each row of result_rows, the demand line that
                        \* produced it (0: appended from master_index)
    output_file,        \* rows written to output_path ("None": not written)
    \* ---- Authentication (UserAuth) ----
    a_pc,               \* "idle", or the call of UserAuth that ended last
    users_file,         \* contents of users.json: user name -> record
    session,            \* the session keys of st.session_state that are set
    now,                \* time.time()
    login_result,       \* what the last call of login did ("None": no call)
    check_result,       \* how the last call of is_authenticated ended
    \* ---- Result state of the page (main_app) ----
    u_pc,               \* "idle", "page", or the event handled last
    uploaded_file,      \* the file held by the st.file_uploader widget
    uploaded_file_obj,  \* st.session_state.uploaded_file_obj
    sheet_names,        \* st.session_state.sheet_names
    df_result,          \* st.session_state.df_result ("None" / "DataFrame")
    processed_successfully  \* st.session_state.processed_successfully

pvars == << p_pc, desc_columns, exist_columns, df_desc, df_exist, df_merged,
            loop_i, stock_actual_item, processed_rows, df_final, st_error >>

mvars == << m_pc, master_file, dynamic_file, new_job_number, master_df,
            dynamic_df, master_index, dyn_i, result_rows, origin, output_file >>

avars == << a_pc, users_file, session, now, login_result, check_result >>

uvars == << u_pc, uploaded_file, uploaded_file_obj, sheet_names, df_result,
            processed_successfully >>

vars == << pvars, mvars, avars, uvars >>

\* No uploaded file.
NoFile == [ name |-> "None", content |-> "None" ]

\* login not called yet.
NoCall == [ ok |-> FALSE, msg |-> "None" ]

\* Authentication not running.
IdleAuth ==
    /\ a_pc = "idle"
    /\ users_file = << >>
    /\ session = << >>
    /\ now = 0
    /\ login_result = NoCall
    /\ check_result = "None"

\* The page not shown.
IdleUI ==
    /\ u_pc = "idle"
    /\ uploaded_file = NoFile
    /\ uploaded_file_obj = NoFile
    /\ sheet_names = << >>
    /\ df_result = "None"
    /\ processed_successfully = FALSE

(***************************************************************************)
(* Bounds of the model.                                                    *)
(***************************************************************************)
\* Total number of rows over the Demand and the Supply table.
MaxRows == 3
\* Largest number of rows of the Demand table.
MaxDemand == 2
\* Largest numeric cell (quantities and stocks range over -1..MaxQty).
MaxQty == 2

\* Item identifiers (compared with <, as sort_values compares them).
Items == {1, 2}

\* Sheet names, as sequences of characters.
Planillas == { << "2", "-", "A" >>, << "5", "-", "B" >> }

\* A spreadsheet cell read with dtype=str: a numeral, or text that
\* pd.to_numeric cannot parse (also a missing cell).
NumeralCells == { [num |-> TRUE, val |-> n] : n \in (0 - 1)..MaxQty }
InvalidCell == [num |-> FALSE, val |-> 0]
RawCells == NumeralCells \cup {InvalidCell}

EXPECTED_COLS_DESC ==
    {"Item", "MATERIAL", "Descripcion Material", "CODIGO OBRA SGT",
     "Planilla", "Planilla Cantidad"}

EXPECTED_COLS_EXIST == {"Item", "Descripcion_SAP", "SAP"}

\* The values of the two dictionaries in the order .items() yields them.
EXPECTED_COLS_DESC_items ==
    << "Item", "MATERIAL", "Descripcion Material", "CODIGO OBRA SGT",
       "Planilla", "Planilla Cantidad" >>

EXPECTED_COLS_EXIST_items == << "Item", "Descripcion_SAP", "SAP" >>

\* st.error not called: no column and no table named.
NoMessage == [ columna |-> "None", datos |-> "None" ]

\* The first expected column that is not among `columns` ("None": all there):
\* the column the validation loop stops at.
FirstMissing(expected, columns) ==
    LET missing == SelectSeq(expected, LAMBDA c : c \notin columns)
    IN  IF missing = << >> THEN "None" ELSE Head(missing)

(***************************************************************************)
(* Pure helpers of Pooled mode.                                            *)
(***************************************************************************)

\* pd.to_numeric(col, errors="coerce").fillna(0), cell by cell.
ToNumericFillna0(cell) == IF cell.num THEN cell.val ELSE 0

Digits == {"0", "1", "2", "3", "4", "5", "6", "7", "8", "9"}

DigitVal(c) ==
    CASE c = "0" -> 0 [] c = "1" -> 1 [] c = "2" -> 2 [] c = "3" -> 3
      [] c = "4" -> 4 [] c = "5" -> 5 [] c = "6" -> 6 [] c = "7" -> 7
      [] c = "8" -> 8 [] c = "9" -> 9

\* Length of the leading run of decimal digits of s: the match of ^(\d+).
RECURSIVE LeadingDigits(_)
LeadingDigits(s) ==
    IF s = << >> \/ Head(s) \notin Digits THEN 0
    ELSE 1 + LeadingDigits(Tail(s))

\* Value of the digit string s (most significant digit first).
RECURSIVE DigitsValue(_, _)
DigitsValue(s, acc) ==
    IF s = << >> THEN acc
    ELSE DigitsValue(Tail(s), 10 * acc + DigitVal(Head(s)))

\* fillna(99999): the key of a sheet name without leading digits.
SinNumero == 99999

\* NumPlanilla: str.extract(r"^(\d+)")[0].astype(float).fillna(99999).astype(int)
NumPlanilla(planilla) ==
    LET n == LeadingDigits(planilla) IN
    IF n = 0 THEN SinNumero
    ELSE DigitsValue(SubSeq(planilla, 1, n), 0)

\* Rows of the Supply table with the given Item, in table order.
ExistRowsOf(exist, item) == SelectSeq(exist, LAMBDA e : e.Item = item)

\* MergeRow with a stock of 1 instead of 0 for an item without Supply row.
MergeRowDefaultOne(d, src, exist) ==
    LET ms == SelectSeq(exist, LAMBDA e : e.Item = d.Item)
        base(sap) == [ Item |-> d.Item,
                       Planilla |-> d.Planilla,
                       PlanillaCantidad |-> d.PlanillaCantidad,
                       SAP_Inicial_Item |-> sap,
                       NumPlanilla |-> NumPlanilla(d.Planilla),
                       src |-> src ]
    IN  IF ms = << >> THEN << base(1) >>
        ELSE [ j \in 1..Len(ms) |-> base(ms[j].SAP) ]

\* Left merge of one Demand row: one merged row per matching Supply row, or
\* one row with a missing SAP when none matches; then the rename to
\* SAP_Inicial_Item with fillna(0), and the NumPlanilla column.
\* src is the row's position in the Demand table (kept to relate segments to
\* Demand rows; the code's rows do not carry it).
MergeRow(d, src, exist) ==
    LET ms == ExistRowsOf(exist, d.Item)
        base(sap) == [ Item |-> d.Item,
                       Planilla |-> d.Planilla,
                       PlanillaCantidad |-> d.PlanillaCantidad,
                       SAP_Inicial_Item |-> sap,
                       NumPlanilla |-> NumPlanilla(d.Planilla),
                       src |-> src ]
    IN  IF ms = << >> THEN << base(0) >>
        ELSE [ j \in 1..Len(ms) |-> base(ms[j].SAP) ]

\* pd.merge(df_desc_std, df_exist_std[...], on="Item", how="left")
RECURSIVE MergeFrom(_, _, _)
MergeFrom(desc, k, exist) ==
    IF k > Len(desc) THEN << >>
    ELSE MergeRow(desc[k], k, exist) \o MergeFrom(desc, k + 1, exist)

PdMergeLeft(desc, exist) == MergeFrom(desc, 1, exist)

\* Order of sort_values([Item, NumPlanilla]).
SortKeyLeq(a, b) ==
    \/ a.Item < b.Item
    \/ a.Item = b.Item /\ a.NumPlanilla <= b.NumPlanilla

\* Insert x behind every element that does not sort after it (stable).
RECURSIVE InsertSorted(_, _)
InsertSorted(x, s) ==
    IF s = << >> THEN << x >>
    ELSE IF SortKeyLeq(Head(s), x) THEN << Head(s) >> \o InsertSorted(x, Tail(s))
    ELSE << x >> \o s

\* df_merged.sort_values([col_item, "NumPlanilla"]): rows with equal keys
\* keep their order.
RECURSIVE SortValues(_)
SortValues(s) ==
    IF s = << >> THEN << >>
    ELSE InsertSorted(s[Len(s)], SortValues(SubSeq(s, 1, Len(s) - 1)))

\* One segment: the merged row updated with the four result columns; idx is
\* the position in the sorted df_merged of the line the segment was produced
\* for (as src, kept to relate segments to lines).
Segment(row, idx, cantidad, antes, diferencia, restante, descargable) ==
    [ Item |-> row.Item,
      Planilla |-> row.Planilla,
      PlanillaCantidad |-> cantidad,
      SAP_Inicial_Item |-> row.SAP_Inicial_Item,
      NumPlanilla |-> row.NumPlanilla,
      SAPAntes |-> antes,
      Diferencia |-> diferencia,
      SAPRestante |-> restante,
      Descargable |-> descargable,
      src |-> row.src,
      idx |-> idx ]

\* ProcessPlanilla without the zero-quantity rule: a line requesting 0 falls
\* through to the stock comparison.
ProcessPlanillaSinReglaCero(row, idx, stock) ==
    LET cantidad_solicitada_planilla == row.PlanillaCantidad
        sap_antes == stock
    IN
    IF stock >= cantidad_solicitada_planilla THEN
        [ rows |-> << Segment(row, idx, cantidad_solicitada_planilla,
                              sap_antes, 0,
                              stock - cantidad_solicitada_planilla, "Si") >>,
          stock |-> stock - cantidad_solicitada_planilla ]
    ELSE
        LET r_descargable ==
                IF stock > 0
                THEN << Segment(row, idx, stock, sap_antes, 0, 0, "Si") >>
                ELSE << >>
            cantidad_faltante == cantidad_solicitada_planilla - stock
            r_faltante ==
                Segment(row, idx, cantidad_faltante, 0, cantidad_faltante, 0, "No")
        IN  [ rows |-> r_descargable \o << r_faltante >>,
              stock |-> 0 ]

\* ProcessPlanilla whose sufficient branch reports the new balance in the
\* segment but does not carry it to the next line.
ProcessPlanillaSinDescuento(row, idx, stock) ==
    LET cantidad_solicitada_planilla == row.PlanillaCantidad
        sap_antes == stock
    IN
    IF cantidad_solicitada_planilla = 0 THEN
        [ rows |-> << Segment(row, idx, cantidad_solicitada_planilla,
                              sap_antes, 0, sap_antes, "No") >>,
          stock |-> stock ]
    ELSE IF stock >= cantidad_solicitada_planilla THEN
        [ rows |-> << Segment(row, idx, cantidad_solicitada_planilla,
                              sap_antes, 0,
                              stock - cantidad_solicitada_planilla, "Si") >>,
          stock |-> stock ]
    ELSE
        LET r_descargable ==
                IF stock > 0
                THEN << Segment(row, idx, stock, sap_antes, 0, 0, "Si") >>
                ELSE << >>
            cantidad_faltante == cantidad_solicitada_planilla - stock
            r_faltante ==
                Segment(row, idx, cantidad_faltante, 0, cantidad_faltante, 0, "No")
        IN  [ rows |-> r_descargable \o << r_faltante >>,
              stock |-> 0 ]

\* ProcessPlanilla taking the sufficient branch only when stock exceeds the
\* requested quantity.
ProcessPlanillaEstricto(row, idx, stock) ==
    LET cantidad_solicitada_planilla == row.PlanillaCantidad
        sap_antes == stock
    IN
    IF cantidad_solicitada_planilla = 0 THEN
        [ rows |-> << Segment(row, idx, cantidad_solicitada_planilla,
                              sap_antes, 0, sap_antes, "No") >>,
          stock |-> stock ]
    ELSE IF stock > cantidad_solicitada_planilla THEN
        [ rows |-> << Segment(row, idx, cantidad_solicitada_planilla,
                              sap_antes, 0,
                              stock - cantidad_solicitada_planilla, "Si") >>,
          stock |-> stock - cantidad_solicitada_planilla ]
    ELSE
        LET r_descargable ==
                IF stock > 0
                THEN << Segment(row, idx, stock, sap_antes, 0, 0, "Si") >>
                ELSE << >>
            cantidad_faltante == cantidad_solicitada_planilla - stock
            r_faltante ==
                Segment(row, idx, cantidad_faltante, 0, cantidad_faltante, 0, "No")
        IN  [ rows |-> r_descargable \o << r_faltante >>,
              stock |-> 0 ]

\* ProcessPlanilla whose deficit segment reports the balance before the
\* split as "SAP Antes".
ProcessPlanillaAntesSinCero(row, idx, stock) ==
    LET cantidad_solicitada_planilla == row.PlanillaCantidad
        sap_antes == stock
    IN
    IF cantidad_solicitada_planilla = 0 THEN
        [ rows |-> << Segment(row, idx, cantidad_solicitada_planilla,
                              sap_antes, 0, sap_antes, "No") >>,
          stock |-> stock ]
    ELSE IF stock >= cantidad_solicitada_planilla THEN
        [ rows |-> << Segment(row, idx, cantidad_solicitada_planilla,
                              sap_antes, 0,
                              stock - cantidad_solicitada_planilla, "Si") >>,
          stock |-> stock - cantidad_solicitada_planilla ]
    ELSE
        LET r_descargable ==
                IF stock > 0
                THEN << Segment(row, idx, stock, sap_antes, 0, 0, "Si") >>
                ELSE << >>
            cantidad_faltante == cantidad_solicitada_planilla - stock
            r_faltante ==
                Segment(row, idx, cantidad_faltante, sap_antes,
                        cantidad_faltante, 0, "No")
        IN  [ rows |-> r_descargable \o << r_faltante >>,
              stock |-> 0 ]

\* Body of the row loop for one merged row and the running balance `stock`:
\* the segments appended to processed_rows and the balance left.
ProcessPlanilla(row, idx, stock) ==
    LET cantidad_solicitada_planilla == row.PlanillaCantidad
        sap_antes == stock
    IN
    IF cantidad_solicitada_planilla = 0 THEN
        [ rows |-> << Segment(row, idx, cantidad_solicitada_planilla,
                              sap_antes, 0, sap_antes, "No") >>,
          stock |-> stock ]
    ELSE IF stock >= cantidad_solicitada_planilla THEN
        [ rows |-> << Segment(row, idx, cantidad_solicitada_planilla,
                              sap_antes, 0,
                              stock - cantidad_solicitada_planilla, "Si") >>,
          stock |-> stock - cantidad_solicitada_planilla ]
    ELSE
        LET r_descargable ==
                IF stock > 0
                THEN << Segment(row, idx, stock, sap_antes, 0, 0, "Si") >>
                ELSE << >>
            cantidad_faltante == cantidad_solicitada_planilla - stock
            r_faltante ==
                Segment(row, idx, cantidad_faltante, 0, cantidad_faltante, 0, "No")
        IN  [ rows |-> r_descargable \o << r_faltante >>,
              stock |-> 0 ]

\* Steps 6-7: the helper columns NumPlanilla and SAP_Inicial_Item dropped.
FinalRow(r) ==
    [ Item |-> r.Item,
      Planilla |-> r.Planilla,
      PlanillaCantidad |-> r.PlanillaCantidad,
      SAPAntes |-> r.SAPAntes,
      Diferencia |-> r.Diferencia,
      SAPRestante |-> r.SAPRestante,
      Descargable |-> r.Descargable,
      src |-> r.src,
      idx |-> r.idx ]

(***************************************************************************)
(* Pooled mode: inputs.                                                    *)
(***************************************************************************)
DemandRows == [ Item : Items, Planilla : Planillas, PlanillaCantidad : RawCells ]
SupplyRows == [ Item : Items, SAP : RawCells ]

\* Sequences over S of length n.
SeqsOfLen(S, n) == [ 1..n -> S ]

\* The Demand and Supply tables handed over by the caller: one to MaxDemand
\* Demand rows, MaxRows rows in all.
PooledInputs ==
    UNION { UNION { SeqsOfLen(DemandRows, nd) \X SeqsOfLen(SupplyRows, ns) :
                        ns \in 0..(MaxRows - nd) } : nd \in 1..MaxDemand }

\* Matched mode not running.
IdleMatched ==
    /\ m_pc = "idle"
    /\ master_file = << >>
    /\ dynamic_file = << >>
    /\ new_job_number = << >>
    /\ master_df = << >>
    /\ dynamic_df = << >>
    /\ master_index = << >>
    /\ dyn_i = 0
    /\ result_rows = << >>
    /\ origin = << >>
    /\ output_file = "None"

InitPooled ==
    /\ p_pc = "start"
    /\ desc_columns = EXPECTED_COLS_DESC
    /\ exist_columns = EXPECTED_COLS_EXIST
    /\ \E io \in PooledInputs : df_desc = io[1] /\ df_exist = io[2]
    /\ df_merged = << >>
    /\ loop_i = 0
    /\ stock_actual_item = 0
    /\ processed_rows = << >>
    /\ df_final = "None"
    /\ st_error = NoMessage
    /\ IdleMatched
    /\ IdleAuth
    /\ IdleUI

(***************************************************************************)
(* Pooled mode: cruce_material_sap_procesado_con_split, step by step.      *)
(***************************************************************************)

\* ValidateAndCoerce with a validation of the Supply table that looks only
\* for the two columns the later steps compute with.
ValidateUsedColumnsOnly ==
    /\ p_pc = "start"
    /\ LET falta_desc == FirstMissing(EXPECTED_COLS_DESC_items, desc_columns)
           falta_exist == FirstMissing(<< "Item", "SAP" >>, exist_columns)
       IN
       IF falta_desc # "None"
       THEN /\ st_error' = [ columna |-> falta_desc, datos |-> "descarga" ]
            /\ p_pc' = "error"
            /\ UNCHANGED << df_desc, df_exist >>
       ELSE IF falta_exist # "None"
       THEN /\ st_error' = [ columna |-> falta_exist, datos |-> "existencia" ]
            /\ p_pc' = "error"
            /\ UNCHANGED << df_desc, df_exist >>
       ELSE /\ p_pc' = "coerced"
            /\ df_desc' = [ k \in 1..Len(df_desc) |->
                    [ df_desc[k] EXCEPT !.PlanillaCantidad = ToNumericFillna0(@) ] ]
            /\ df_exist' = [ k \in 1..Len(df_exist) |->
                    [ df_exist[k] EXCEPT !.SAP = ToNumericFillna0(@) ] ]
            /\ UNCHANGED st_error
    /\ UNCHANGED << desc_columns, exist_columns, df_merged, loop_i,
                    stock_actual_item, processed_rows, df_final >>
    /\ UNCHANGED << mvars, avars, uvars >>

\* Steps 1-2: column validation (return None on a missing column, before
\* anything is touched), then the numeric conversion of both tables in place.
ValidateAndCoerce ==
    /\ p_pc = "start"
    /\ LET falta_desc == FirstMissing(EXPECTED_COLS_DESC_items, desc_columns)
           falta_exist == FirstMissing(EXPECTED_COLS_EXIST_items, exist_columns)
       IN
       IF falta_desc # "None"
       THEN /\ st_error' = [ columna |-> falta_desc, datos |-> "descarga" ]
            /\ p_pc' = "error"
            /\ UNCHANGED << df_desc, df_exist >>
       ELSE IF falta_exist # "None"
       THEN /\ st_error' = [ columna |-> falta_exist, datos |-> "existencia" ]
            /\ p_pc' = "error"
            /\ UNCHANGED << df_desc, df_exist >>
       ELSE /\ p_pc' = "coerced"
            /\ df_desc' = [ k \in 1..Len(df_desc) |->
                    [ df_desc[k] EXCEPT !.PlanillaCantidad = ToNumericFillna0(@) ] ]
            /\ df_exist' = [ k \in 1..Len(df_exist) |->
                    [ df_exist[k] EXCEPT !.SAP = ToNumericFillna0(@) ] ]
            /\ UNCHANGED st_error
    /\ UNCHANGED << desc_columns, exist_columns, df_merged, loop_i,
                    stock_actual_item, processed_rows, df_final >>
    /\ UNCHANGED << mvars, avars, uvars >>

\* Steps 3-4: left merge on Item, SAP_Inicial_Item, NumPlanilla, sort.
MergeAndSort ==
    /\ p_pc = "coerced"
    /\ df_merged' = SortValues(PdMergeLeft(df_desc, df_exist))
    /\ loop_i' = 1
    /\ p_pc' = "loop"
    /\ UNCHANGED << desc_columns, exist_columns, df_desc, df_exist,
                    stock_actual_item, processed_rows, df_final, st_error >>
    /\ UNCHANGED << mvars, avars, uvars >>

\* TRUE when row i of df_merged opens a group of groupby(Item, sort=False).
GroupStart(i) == i = 1 \/ df_merged[i - 1].Item # df_merged[i].Item

\* BalanceBefore that starts from SAP_Inicial_Item on the first row of the
\* table only, carrying the running balance across items.
BalanceBeforeCarried(i) ==
    IF i = 1 THEN df_merged[i].SAP_Inicial_Item ELSE stock_actual_item

\* The balance the loop body sees for row i: group.iloc[0]["SAP_Inicial_Item"]
\* on the first row of a group, the running balance afterwards.
BalanceBefore(i) ==
    IF GroupStart(i) THEN df_merged[i].SAP_Inicial_Item ELSE stock_actual_item

\* Step 5, one iteration of the row loop.
ProcessRow ==
    /\ p_pc = "loop"
    /\ loop_i <= Len(df_merged)
    /\ LET res == ProcessPlanilla(df_merged[loop_i], loop_i, BalanceBefore(loop_i))
       IN  /\ processed_rows' = processed_rows \o res.rows
           /\ stock_actual_item' = res.stock
    /\ loop_i' = loop_i + 1
    /\ UNCHANGED << p_pc, desc_columns, exist_columns, df_desc, df_exist,
                    df_merged, df_final, st_error >>
    /\ UNCHANGED << mvars, avars, uvars >>

\* Steps 6-7: build and return df_final.
BuildResult ==
    /\ p_pc = "loop"
    /\ loop_i > Len(df_merged)
    /\ df_final' = [ k \in 1..Len(processed_rows) |-> FinalRow(processed_rows[k]) ]
    /\ p_pc' = "done"
    /\ UNCHANGED << desc_columns, exist_columns, df_desc, df_exist, df_merged,
                    loop_i, stock_actual_item, processed_rows, st_error >>
    /\ UNCHANGED << mvars, avars, uvars >>

NextPooled ==
    \/ ValidateAndCoerce
    \/ MergeAndSort
    \/ ProcessRow
    \/ BuildResult

SpecPooled == InitPooled /\ [][NextPooled]_vars

\* Step 5 as a function of the sorted merged table: the segments the row loop
\* appends from row i on, `stock` being the balance left by row i - 1.
RECURSIVE LoopFrom(_, _, _)
LoopFrom(merged, i, stock) ==
    IF i > Len(merged) THEN << >>
    ELSE LET b == IF i = 1 \/ merged[i - 1].Item # merged[i].Item
                  THEN merged[i].SAP_Inicial_Item
                  ELSE stock
             res == ProcessPlanilla(merged[i], i, b)
         IN  res.rows \o LoopFrom(merged, i + 1, res.stock)

\* Steps 3-5 as a function of the two converted tables: processed_rows at
\* the end of the row loop.
CruceRows(desc, exist) == LoopFrom(SortValues(PdMergeLeft(desc, exist)), 1, 0)

(***************************************************************************)
(* Pooled mode called with tables that may lack a standardized column.     *)
(***************************************************************************)

\* The column sets a table can arrive with: complete, or one column short.
ColumnSets(expected) == {expected} \cup { expected \ {c} : c \in expected }

\* The column behind each field of a row of the model.
FieldColumn ==
    [ Item |-> "Item", Planilla |-> "Planilla",
      PlanillaCantidad |-> "Planilla Cantidad", SAP |-> "SAP" ]

\* A row of a table that has only the given columns.
RowWithColumns(row, columns) ==
    [ f \in { g \in DOMAIN row : FieldColumn[g] \in columns } |-> row[f] ]

\* The function called with a one-row Demand table and a Supply table of at
\* most one row, each complete or one column short.
InitSchema ==
    /\ p_pc = "start"
    /\ desc_columns \in ColumnSets(EXPECTED_COLS_DESC)
    /\ exist_columns \in ColumnSets(EXPECTED_COLS_EXIST)
    /\ \E d \in DemandRows :
          df_desc = << RowWithColumns(d, desc_columns) >>
    /\ \E e \in SeqsOfLen(SupplyRows, 0) \cup SeqsOfLen(SupplyRows, 1) :
          df_exist = [ k \in 1..Len(e) |-> RowWithColumns(e[k], exist_columns) ]
    /\ df_merged = << >>
    /\ loop_i = 0
    /\ stock_actual_item = 0
    /\ processed_rows = << >>
    /\ df_final = "None"
    /\ st_error = NoMessage
    /\ IdleMatched
    /\ IdleAuth
    /\ IdleUI

SpecSchema == InitSchema /\ [][NextPooled]_vars

(***************************************************************************)
(* Pooled mode called with sheet names of every kind: without leading      *)
(* digits, with a small number, with a number above the fillna key.        *)
(***************************************************************************)
PriorityPlanillas ==
    { << "A", "-", "1" >>, << "7" >>, << "1", "0", "0", "0", "0", "0", "-", "B" >> }

PriorityDemandRows ==
    [ Item : {1}, Planilla : PriorityPlanillas, PlanillaCantidad : RawCells ]

\* One to MaxDemand Demand rows of one item and at most one Supply row.
InitPriority ==
    /\ p_pc = "start"
    /\ desc_columns = EXPECTED_COLS_DESC
    /\ exist_columns = EXPECTED_COLS_EXIST
    /\ \E nd \in 1..MaxDemand : df_desc \in SeqsOfLen(PriorityDemandRows, nd)
    /\ df_exist \in SeqsOfLen(SupplyRows, 0) \cup SeqsOfLen(SupplyRows, 1)
    /\ df_merged = << >>
    /\ loop_i = 0
    /\ stock_actual_item = 0
    /\ processed_rows = << >>
    /\ df_final = "None"
    /\ st_error = NoMessage
    /\ IdleMatched
    /\ IdleAuth
    /\ IdleUI

SpecPriority == InitPriority /\ [][NextPooled]_vars

(***************************************************************************)
(* Matched mode: InventoryProcessor (src/inventory_processor.py).          *)
(***************************************************************************)
\* Largest SALDO of a master row (SALDO ranges over -1..MaxSaldo).
MaxSaldo == 1
\* Largest requested quantity of a demand line (1..MaxCant).
MaxCant == 1
\* Total number of rows over the master and the dynamic file.
MaxFileRows == 3

\* A missing CODIGO OBRA SGT cell (NaN).
NaN == "NaN"

\* (CODIGO OBRA SGT, Item) keys occurring in the files.
Keys == { << "WO7", 9 >>, << "WO8", 4 >> }

\* FECHA DESCAR SGT cells: a day-first date as written (dd, mm, yyyy), or
\* text that is no date.
FechaCells == { [txt |-> << 27, 5, 2025 >>], [txt |-> << >>] }

\* Descargable cells, as sequences of characters ("i_acute", "I_ACUTE" stand
\* for the accented letters).
DescargableCells ==
    { << "s", "i" >>, << " ", "S", "I_ACUTE", " " >>, << "N", "o" >> }

\* Job numbers given to the constructor.
JobNumbers == { << "3" >> }

observation == "PLANILLA DESCARGUE MATERIAL"
new_work_order == "206012025020002"

MasterFileRows ==
    { [ CODIGO_OBRA_SGT |-> k[1], Item |-> k[2], SALDO |-> s, FECHA |-> f ] :
        k \in Keys, s \in (0 - 1)..MaxSaldo, f \in FechaCells }

DynamicFileRows ==
    { [ CODIGO_OBRA_SGT |-> k[1], Item |-> k[2], PlanillaCantidad |-> q,
        Descargable |-> d ] :
        k \in Keys, q \in 1..MaxCant, d \in DescargableCells }

MatchedInputs ==
    UNION { UNION { SeqsOfLen(MasterFileRows, nm) \X SeqsOfLen(DynamicFileRows, nd) :
                        nd \in 0..(MaxFileRows - nm) } : nm \in 1..MaxFileRows }

\* str.zfill(width): zeros on the left up to width, behind a leading sign.
RECURSIVE Zeros(_)
Zeros(n) == IF n <= 0 THEN << >> ELSE << "0" >> \o Zeros(n - 1)

Zfill(s, width) ==
    IF Len(s) >= width THEN s
    ELSE IF s # << >> /\ Head(s) \in {"+", "-"}
         THEN << Head(s) >> \o Zeros(width - Len(s)) \o Tail(s)
         ELSE Zeros(width - Len(s)) \o s

\* pd.to_datetime(cell, dayfirst=True, errors="coerce")
NaT == [nat |-> TRUE, year |-> 0, month |-> 0, day |-> 0]

ToDatetime(cell) ==
    IF Len(cell.txt) = 3
    THEN [nat |-> FALSE, year |-> cell.txt[3], month |-> cell.txt[2],
          day |-> cell.txt[1]]
    ELSE NaT

\* fecha.strftime("%d/%m/%Y") if pd.notna(fecha) else ""
FormatFecha(fecha) ==
    IF fecha.nat THEN << >>
    ELSE << fecha.day, "/", fecha.month, "/", fecha.year >>

\* str.upper(), character by character.
UpperChar(c) ==
    CASE c = "s" -> "S" [] c = "i" -> "I" [] c = "i_acute" -> "I_ACUTE"
      [] c = "n" -> "N" [] c = "o" -> "O" [] OTHER -> c

StrUpper(s) == [ k \in 1..Len(s) |-> UpperChar(s[k]) ]

\* str.strip(): leading and trailing blanks removed.
RECURSIVE LStrip(_)
LStrip(s) == IF s # << >> /\ Head(s) = " " THEN LStrip(Tail(s)) ELSE s

RECURSIVE RStrip(_)
RStrip(s) ==
    IF s # << >> /\ s[Len(s)] = " " THEN RStrip(SubSeq(s, 1, Len(s) - 1)) ELSE s

StrStrip(s) == RStrip(LStrip(s))

KeyOf(row) == << row.CODIGO_OBRA_SGT, row.Item >>

\* BuildIndex that keeps the first row of a key and ignores later ones.
RECURSIVE BuildIndexKeepFirst(_, _)
BuildIndexKeepFirst(rows, index) ==
    IF rows = << >> THEN index
    ELSE LET r == Head(rows)
             at == { k \in 1..Len(index) : KeyOf(index[k]) = KeyOf(r) }
         IN  BuildIndexKeepFirst(Tail(rows),
                                 IF at = {} THEN Append(index, r) ELSE index)

\* The dict comprehension of load_master: a later row with a key already
\* present replaces the value and keeps the key's position.
RECURSIVE BuildIndex(_, _)
BuildIndex(rows, index) ==
    IF rows = << >> THEN index
    ELSE LET r == Head(rows)
             at == { k \in 1..Len(index) : KeyOf(index[k]) = KeyOf(r) }
         IN  BuildIndex(Tail(rows),
                        IF at = {} THEN Append(index, r)
                        ELSE [ k \in 1..Len(index) |->
                                 IF k \in at THEN r ELSE index[k] ])

\* load_master: rows without CODIGO OBRA SGT dropped, FECHA parsed.
LoadedMaster(file) ==
    LET kept == SelectSeq(file, LAMBDA r : r.CODIGO_OBRA_SGT # NaN)
    IN  [ k \in 1..Len(kept) |-> [ kept[k] EXCEPT !.FECHA = ToDatetime(@) ] ]

\* load_dynamic: Descargable normalised with .astype(str).str.strip().str.upper()
LoadedDynamic(file) ==
    [ k \in 1..Len(file) |->
        [ file[k] EXCEPT !.Descargable = StrUpper(StrStrip(@)) ] ]

HasKey(index, key) == \E k \in 1..Len(index) : KeyOf(index[k]) = key

IndexGet(index, key) ==
    index[CHOOSE k \in 1..Len(index) : KeyOf(index[k]) = key]

\* A lookup that leaves the record in the index (get instead of pop).
IndexGetOnly(index, key) == index

\* The index left by master_index.pop(key, None).
IndexPop(index, key) == SelectSeq(index, LAMBDA r : KeyOf(r) # key)

\* The values process() accepts as an affirmative Descargable.
Afirmativos == { << "s", "i" >>, << "s", "i_acute" >> }

\* Lines 71-95: the one or two records of an eligible line.
Allocate(record, qty) ==
    LET saldo == record.SALDO IN
    IF saldo >= qty THEN
        << [ CantDesc |-> qty, SALDO |-> saldo - qty,
             CRUZADO |-> IF saldo - qty = 0 THEN "SI" ELSE "NO" ] @@ record >>
    ELSE
        LET used == IF saldo > 0 THEN saldo ELSE 0
            deficit == qty - used
        IN  << [ CantDesc |-> used, SALDO |-> 0, CRUZADO |-> "SI" ] @@ record,
               [ CantDesc |-> deficit, SALDO |-> 0 - deficit,
                 CRUZADO |-> "NO" ] @@ record >>

\* Lines 98-110: run metadata, composite label, formatted date.
Stamp(rec, job) ==
    [ OBSERVACION |-> observation,
      NUEVA_OBRA |-> new_work_order,
      NUEVO_TRABAJO |-> job,
      OBRA_TRAB_ITEM |-> << new_work_order, job, "-", rec.Item >>,
      FECHA |-> FormatFecha(rec.FECHA) ] @@ rec

\* ProcessDemandLine whose non-eligible branch leaves the record in the
\* index (a lookup instead of a pop).
ProcessDemandLineKeepRecord(index, drow, job) ==
    LET key == KeyOf(drow) IN
    IF ~HasKey(index, key) THEN [ index |-> index, rows |-> << >> ]
    ELSE
        LET record == IndexGet(index, key)
            left == IndexPop(index, key)
        IN  IF drow.Descargable \notin Afirmativos
            THEN [ index |-> index, rows |-> << record >> ]
            ELSE LET recs == Allocate(record, drow.PlanillaCantidad)
                 IN  [ index |-> left,
                       rows |-> [ k \in 1..Len(recs) |-> Stamp(recs[k], job) ] ]

\* ProcessDemandLine that, for a key the index does not have, emits an empty
\* row and drops the oldest record of the index.
ProcessDemandLineNoSkip(index, drow, job) ==
    LET key == KeyOf(drow) IN
    IF ~HasKey(index, key)
    THEN [ index |-> IF index = << >> THEN index ELSE Tail(index),
           rows |-> << [ Item |-> drow.Item ] >> ]
    ELSE
        LET record == IndexGet(index, key)
            left == IndexPop(index, key)
        IN  IF drow.Descargable \notin Afirmativos
            THEN [ index |-> left, rows |-> << record >> ]
            ELSE LET recs == Allocate(record, drow.PlanillaCantidad)
                 IN  [ index |-> left,
                       rows |-> [ k \in 1..Len(recs) |-> Stamp(recs[k], job) ] ]

\* Lines 60-111: one iteration of the loop of process(): the index left and
\* the rows appended to result_rows.
ProcessDemandLine(index, drow, job) ==
    LET key == KeyOf(drow) IN
    IF ~HasKey(index, key) THEN [ index |-> index, rows |-> << >> ]
    ELSE
        LET record == IndexGet(index, key)
            left == IndexPop(index, key)
        IN  IF drow.Descargable \notin Afirmativos
            THEN [ index |-> left, rows |-> << record >> ]
            ELSE LET recs == Allocate(record, drow.PlanillaCantidad)
                 IN  [ index |-> left,
                       rows |-> [ k \in 1..Len(recs) |-> Stamp(recs[k], job) ] ]

\* The remaining records tagged as if they had gone through the allocation.
RemainingRecordsTagged(index) ==
    [ k \in 1..Len(index) |-> [ CRUZADO |-> "NO" ] @@ index[k] ]

\* Line 114: the rows result_rows.extend(self.master_index.values()) appends.
RemainingRecords(index) == index

\* Columns of pd.DataFrame(rows): the union of the rows' keys.
ColumnsOf(rows) == UNION { DOMAIN rows[k] : k \in 1..Len(rows) }

\* df.drop_duplicates(): the first of each run of equal rows is kept.
RECURSIVE DropDuplicates(_, _)
DropDuplicates(rows, seen) ==
    IF rows = << >> THEN << >>
    ELSE IF Head(rows) \in seen THEN DropDuplicates(Tail(rows), seen)
    ELSE << Head(rows) >> \o DropDuplicates(Tail(rows), seen \cup {Head(rows)})

\* df["NUEVO TRABAJO"].astype(str).str.zfill(2): a row without the field
\* holds NaN there, which astype(str) turns into "nan".
RePad(row) ==
    IF "NUEVO_TRABAJO" \in DOMAIN row
    THEN [ row EXCEPT !.NUEVO_TRABAJO = Zfill(@, 2) ]
    ELSE [ NUEVO_TRABAJO |-> Zfill(<< "n", "a", "n" >>, 2) ] @@ row

\* Lines 118-123 of save().
SavedRows(rows) ==
    LET df == DropDuplicates(rows, {})
        valid == SelectSeq(df, LAMBDA r : r.CODIGO_OBRA_SGT # NaN)
    IN  [ k \in 1..Len(valid) |-> RePad(valid[k]) ]

\* Pooled mode not running.
IdlePooled ==
    /\ p_pc = "idle"
    /\ desc_columns = {}
    /\ exist_columns = {}
    /\ df_desc = << >>
    /\ df_exist = << >>
    /\ df_merged = << >>
    /\ loop_i = 0
    /\ stock_actual_item = 0
    /\ processed_rows = << >>
    /\ df_final = "None"
    /\ st_error = NoMessage

\* InventoryProcessor.__init__ with the two files in place.
InitMatched ==
    /\ m_pc = "init"
    /\ \E io \in MatchedInputs : master_file = io[1] /\ dynamic_file = io[2]
    /\ \E job \in JobNumbers : new_job_number = Zfill(job, 2)
    /\ master_df = << >>
    /\ dynamic_df = << >>
    /\ master_index = << >>
    /\ dyn_i = 0
    /\ result_rows = << >>
    /\ origin = << >>
    /\ output_file = "None"
    /\ IdlePooled
    /\ IdleAuth
    /\ IdleUI

load_master ==
    /\ m_pc = "init"
    /\ master_df' = LoadedMaster(master_file)
    /\ master_index' = BuildIndex(LoadedMaster(master_file), << >>)
    /\ m_pc' = "master_loaded"
    /\ UNCHANGED << master_file, dynamic_file, new_job_number, dynamic_df,
                    dyn_i, result_rows, origin, output_file >>
    /\ UNCHANGED << pvars, avars, uvars >>

load_dynamic ==
    /\ m_pc = "master_loaded"
    /\ dynamic_df' = LoadedDynamic(dynamic_file)
    /\ dyn_i' = 1
    /\ m_pc' = "process"
    /\ UNCHANGED << master_file, dynamic_file, new_job_number, master_df,
                    master_index, result_rows, origin, output_file >>
    /\ UNCHANGED << pvars, avars, uvars >>

\* process_line putting the rows of a line in front of result_rows.
process_line_prepend ==
    /\ m_pc = "process"
    /\ dyn_i <= Len(dynamic_df)
    /\ LET res == ProcessDemandLine(master_index, dynamic_df[dyn_i], new_job_number)
       IN  /\ master_index' = res.index
           /\ result_rows' = res.rows \o result_rows
           /\ origin' = [ k \in 1..Len(res.rows) |-> dyn_i ] \o origin
    /\ dyn_i' = dyn_i + 1
    /\ UNCHANGED << m_pc, master_file, dynamic_file, new_job_number, master_df,
                    dynamic_df, output_file >>
    /\ UNCHANGED << pvars, avars, uvars >>

\* One iteration of the loop of process().
process_line ==
    /\ m_pc = "process"
    /\ dyn_i <= Len(dynamic_df)
    /\ LET res == ProcessDemandLine(master_index, dynamic_df[dyn_i], new_job_number)
       IN  /\ master_index' = res.index
           /\ result_rows' = result_rows \o res.rows
           /\ origin' = origin \o [ k \in 1..Len(res.rows) |-> dyn_i ]
    /\ dyn_i' = dyn_i + 1
    /\ UNCHANGED << m_pc, master_file, dynamic_file, new_job_number, master_df,
                    dynamic_df, output_file >>
    /\ UNCHANGED << pvars, avars, uvars >>

\* The end of process(): the records left in master_index are appended.
process_extend ==
    /\ m_pc = "process"
    /\ dyn_i > Len(dynamic_df)
    /\ LET rest == RemainingRecords(master_index)
       IN  /\ result_rows' = result_rows \o rest
           /\ origin' = origin \o [ k \in 1..Len(rest) |-> 0 ]
    /\ m_pc' = "processed"
    /\ UNCHANGED << master_file, dynamic_file, new_job_number, master_df,
                    dynamic_df, master_index, dyn_i, output_file >>
    /\ UNCHANGED << pvars, avars, uvars >>

\* save(): df["CODIGO OBRA SGT"] and df["NUEVO TRABAJO"] raise KeyError when
\* no row of result_rows has the column; nothing is written then.
save ==
    /\ m_pc = "processed"
    /\ IF {"CODIGO_OBRA_SGT", "NUEVO_TRABAJO"} \subseteq ColumnsOf(result_rows)
       THEN /\ output_file' = SavedRows(result_rows)
            /\ m_pc' = "saved"
       ELSE /\ output_file' = "None"
            /\ m_pc' = "KeyError"
    /\ UNCHANGED << master_file, dynamic_file, new_job_number, master_df,
                    dynamic_df, master_index, dyn_i, result_rows, origin >>
    /\ UNCHANGED << pvars, avars, uvars >>

NextMatched ==
    \/ load_master
    \/ load_dynamic
    \/ process_line
    \/ process_extend
    \/ save

SpecMatched == InitMatched /\ [][NextMatched]_vars

(***************************************************************************)
(* Matched mode on files large enough for two matched demand lines and an  *)
(* unmatched master record.                                                *)
(***************************************************************************)
OrderKeys == Keys \cup { << "WO9", 2 >> }

OrderMasterRows ==
    { [ CODIGO_OBRA_SGT |-> k[1], Item |-> k[2], SALDO |-> 1,
        FECHA |-> [txt |-> << 27, 5, 2025 >>] ] : k \in OrderKeys }

OrderDynamicRows ==
    { [ CODIGO_OBRA_SGT |-> k[1], Item |-> k[2], PlanillaCantidad |-> q,
        Descargable |-> d ] :
        k \in OrderKeys, q \in 1..MaxCant, d \in DescargableCells }

\* InventoryProcessor.__init__ with a master file of three rows and a
\* dynamic file of two rows.
InitOrder ==
    /\ m_pc = "init"
    /\ master_file \in SeqsOfLen(OrderMasterRows, 3)
    /\ dynamic_file \in SeqsOfLen(OrderDynamicRows, 2)
    /\ \E job \in JobNumbers : new_job_number = Zfill(job, 2)
    /\ master_df = << >>
    /\ dynamic_df = << >>
    /\ master_index = << >>
    /\ dyn_i = 0
    /\ result_rows = << >>
    /\ origin = << >>
    /\ output_file = "None"
    /\ IdlePooled
    /\ IdleAuth
    /\ IdleUI

SpecOrder == InitOrder /\ [][NextMatched]_vars

(***************************************************************************)
(* Matched mode constructed with any job-number string.                    *)
(***************************************************************************)
\* Longest job-number string given to the constructor.
MaxJobLen == 3

\* Characters of a job-number string.
JobChars == { "0", "7", "-" }

\* Every string over JobChars of at most MaxJobLen characters, the empty
\* string included.
JobStrings == UNION { SeqsOfLen(JobChars, n) : n \in 0..MaxJobLen }

\* InventoryProcessor.__init__ with any job-number string, a master file of
\* one row and a dynamic file of at most one row.
InitPadding ==
    /\ m_pc = "init"
    /\ \E io \in SeqsOfLen(MasterFileRows, 1)
                  \X (SeqsOfLen(DynamicFileRows, 0) \cup SeqsOfLen(DynamicFileRows, 1)) :
          master_file = io[1] /\ dynamic_file = io[2]
    /\ \E job \in JobStrings : new_job_number = Zfill(job, 2)
    /\ master_df = << >>
    /\ dynamic_df = << >>
    /\ master_index = << >>
    /\ dyn_i = 0
    /\ result_rows = << >>
    /\ origin = << >>
    /\ output_file = "None"
    /\ IdlePooled
    /\ IdleAuth
    /\ IdleUI

SpecPadding == InitPadding /\ [][NextMatched]_vars

(***************************************************************************)
(* Authentication: UserAuth (src/app_auth_admin.py, src/auth_system.py).   *)
(***************************************************************************)
\* self.session_timeout, in seconds.
session_timeout == 300
\* Largest value of the clock.
MaxTime == 700

\* Seconds that pass between two calls.
Delays == { 150, session_timeout, session_timeout + 1 }

\* A string used as a password: `depth` applications of sha256 to the text
\* `base` (0: the text itself), so that a hash differs from its argument.
PasswordStrings == [ base : {"p", "q"}, depth : {0, 1} ]

\* _hash_password
HashPassword(password) == [ password EXCEPT !.depth = @ + 1 ]

\* Names typed into the login form.
Usernames == { "ana", "eva" }

\* last_login of a user who never logged in (None).
NeverLoggedIn == 0 - 1

\* The records users.json can hold for "ana": the password stored as text or
\* as its hash, enabled or not, with or without a role (old files).
UserRecords ==
    UNION { { [ password |-> pw, enabled |-> e, last_login |-> NeverLoggedIn ],
              [ password |-> pw, enabled |-> e, last_login |-> NeverLoggedIn,
                role |-> "user" ] } :
            pw \in { [ base |-> "p", depth |-> 0 ], [ base |-> "p", depth |-> 1 ] },
            e \in BOOLEAN }

\* users.json: empty, or one user.
UserFiles ==
    { [ u \in {} |-> NoCall ] } \cup { [ u \in {"ana"} |-> rec ] : rec \in UserRecords }

\* The keys logout() deletes.
session_keys ==
    { "username", "email", "name", "authenticated", "last_activity_time",
      "auth_time", "role" }

\* st.session_state.get("authenticated", False)
Authenticated(state) ==
    IF "authenticated" \in DOMAIN state THEN state.authenticated ELSE FALSE

\* logout(): the session keys deleted, logged_out set.
LoggedOut(state) ==
    [ logged_out |-> TRUE ]
        @@ [ k \in DOMAIN state \ session_keys |-> state[k] ]

\* UserAuth() in a new browser session.
InitAuth ==
    /\ a_pc = "constructed"
    /\ users_file \in UserFiles
    /\ session = [ last_activity_time |-> 0 ]
    /\ now = 0
    /\ login_result = NoCall
    /\ check_result = "None"
    /\ IdlePooled
    /\ IdleMatched
    /\ IdleUI

\* Time passes between two calls.
Tick ==
    /\ a_pc # "idle"
    /\ \E d \in Delays :
          /\ now + d <= MaxTime
          /\ now' = now + d
    /\ a_pc' = "clock"
    /\ UNCHANGED << users_file, session, login_result, check_result >>
    /\ UNCHANGED << pvars, mvars, uvars >>

\* login(username, password), called from the login form, which is shown
\* only while is_authenticated() is False. Every _save_users writes the
\* file; the last one written is what the file holds when login returns.
Login ==
    /\ a_pc # "idle"
    /\ ~Authenticated(session)
    /\ \E username \in Usernames : \E password \in PasswordStrings :
          LET users == users_file
              hashed_password == HashPassword(password)
          IN
          IF username \notin DOMAIN users
          THEN /\ login_result' = [ ok |-> FALSE, msg |-> "Usuario no encontrado" ]
               /\ UNCHANGED << users_file, session >>
          ELSE
          LET stored_password == users[username].password IN
          IF stored_password # hashed_password /\ stored_password # password
          THEN /\ login_result' = [ ok |-> FALSE, msg |-> "Contrasena incorrecta" ]
               /\ UNCHANGED << users_file, session >>
          ELSE
          LET rehashed ==
                  IF stored_password = password /\ password # hashed_password
                  THEN [ users EXCEPT ![username].password = hashed_password ]
                  ELSE users
          IN
          IF ~rehashed[username].enabled
          THEN /\ login_result' = [ ok |-> FALSE, msg |-> "Usuario deshabilitado" ]
               /\ users_file' = rehashed
               /\ UNCHANGED session
          ELSE
          LET with_role ==
                  IF "role" \notin DOMAIN rehashed[username]
                  THEN [ rehashed EXCEPT ![username] =
                           [ role |-> IF username = "admin" THEN "admin" ELSE "user" ]
                               @@ @ ]
                  ELSE rehashed
              logged == [ with_role EXCEPT ![username].last_login = now ]
          IN  /\ users_file' = logged
              /\ session' = [ authenticated |-> TRUE,
                              auth_time |-> now,
                              username |-> username,
                              role |-> logged[username].role ] @@ session
              /\ login_result' = [ ok |-> TRUE, msg |-> "Inicio de sesion exitoso" ]
    /\ a_pc' = "login"
    /\ UNCHANGED << now, check_result >>
    /\ UNCHANGED << pvars, mvars, uvars >>

\* IsAuthenticated that expires the session when exactly session_timeout
\* seconds have passed.
IsAuthenticatedAtTimeout ==
    /\ a_pc # "idle"
    /\ IF ~Authenticated(session)
       THEN /\ check_result' = "False"
            /\ UNCHANGED session
       ELSE LET current_time == now
                auth_time == IF "auth_time" \in DOMAIN session
                             THEN session.auth_time ELSE 0
            IN  IF current_time - auth_time >= session_timeout
                THEN /\ session' = LoggedOut(session)
                     /\ check_result' \in { "False", "Rerun" }
                ELSE /\ session' = [ session EXCEPT !.auth_time = current_time ]
                     /\ check_result' = "True"
    /\ a_pc' = "is_authenticated"
    /\ UNCHANGED << users_file, now, login_result >>
    /\ UNCHANGED << pvars, mvars, uvars >>

\* is_authenticated(). On expiry logout() ends with st.rerun(), which stops
\* the script run when there is one ("Rerun") and returns otherwise, so that
\* `return False` is reached ("False").
IsAuthenticated ==
    /\ a_pc # "idle"
    /\ IF ~Authenticated(session)
       THEN /\ check_result' = "False"
            /\ UNCHANGED session
       ELSE LET current_time == now
                auth_time == IF "auth_time" \in DOMAIN session
                             THEN session.auth_time ELSE 0
            IN  IF current_time - auth_time > session_timeout
                THEN /\ session' = LoggedOut(session)
                     /\ check_result' \in { "False", "Rerun" }
                ELSE /\ session' = [ session EXCEPT !.auth_time = current_time ]
                     /\ check_result' = "True"
    /\ a_pc' = "is_authenticated"
    /\ UNCHANGED << users_file, now, login_result >>
    /\ UNCHANGED << pvars, mvars, uvars >>

NextAuth ==
    \/ Tick
    \/ Login
    \/ IsAuthenticated

SpecAuth == InitAuth /\ [][NextAuth]_vars

(***************************************************************************)
(* Result state of the page: main_app of app_auth_admin.py.  Every event   *)
(* of the user starts a run of the script; an action is the event with the *)
(* run (and the reruns the run asks for) that follows it.                  *)
(***************************************************************************)
\* Files the user can put in the uploader: a name and the contents, which
\* are a workbook or something pandas cannot open as an Excel file.
FileNames == { "a.xlsx", "b.xlsx", "c.xls" }

Contents == { "not a workbook", "workbook 1", "workbook 2", "workbook 3" }

Files == [ name : FileNames, content : Contents ]

\* pd.ExcelFile opens the file.
OpensAsExcel(file) == file.content # "not a workbook"

\* xls.sheet_names of a file that can be opened.
SheetNames == << "Material por descargar", "Existencia" >>

\* The four session keys as one record.
PageState ==
    [ uploaded_file_obj |-> uploaded_file_obj,
      sheet_names |-> sheet_names,
      df_result |-> df_result,
      processed_successfully |-> processed_successfully ]

\* The upload block of a run of the script (lines 612-646) with file in the
\* widget and state the session keys: a file whose name is not the stored
\* one is stored, the result is reset and the script reruns; then the sheet
\* names are read from the stored file if there are none, and a file that
\* cannot be opened is forgotten.
UploadBlock(file, state) ==
    IF file = NoFile
    THEN state
    ELSE LET stored ==
                 IF \/ state.uploaded_file_obj = NoFile
                    \/ file.name # state.uploaded_file_obj.name
                 THEN [ uploaded_file_obj |-> file,
                        sheet_names |-> << >>,
                        df_result |-> "None",
                        processed_successfully |-> FALSE ]
                 ELSE state
         IN  IF stored.sheet_names = << >>
             THEN IF OpensAsExcel(stored.uploaded_file_obj)
                  THEN [ stored EXCEPT !.sheet_names = SheetNames ]
                  ELSE [ stored EXCEPT !.uploaded_file_obj = NoFile ]
             ELSE stored

\* limpiar_estado().
limpiar_estado ==
    [ uploaded_file_obj |-> NoFile,
      sheet_names |-> << >>,
      df_result |-> "None",
      processed_successfully |-> FALSE ]

\* The session keys become state.
SetPageState(state) ==
    /\ uploaded_file_obj' = state.uploaded_file_obj
    /\ sheet_names' = state.sheet_names
    /\ df_result' = state.df_result
    /\ processed_successfully' = state.processed_successfully

\* The page is shown for the first time: lines 581-592.
InitUI ==
    /\ u_pc = "page"
    /\ uploaded_file = NoFile
    /\ uploaded_file_obj = NoFile
    /\ sheet_names = << >>
    /\ df_result = "None"
    /\ processed_successfully = FALSE
    /\ IdlePooled
    /\ IdleMatched
    /\ IdleAuth

\* The user puts a file in the uploader.
ChooseFile ==
    /\ u_pc # "idle"
    /\ \E file \in Files :
          /\ file # uploaded_file
          /\ uploaded_file' = file
          /\ SetPageState(UploadBlock(file, PageState))
    /\ u_pc' = "choose"
    /\ UNCHANGED << pvars, mvars, avars >>

\* The user takes the file out of the uploader: the upload block is skipped.
RemoveFile ==
    /\ u_pc # "idle"
    /\ uploaded_file # NoFile
    /\ uploaded_file' = NoFile
    /\ SetPageState(UploadBlock(NoFile, PageState))
    /\ u_pc' = "remove"
    /\ UNCHANGED << pvars, mvars, avars >>

\* The button "Limpiar Todo": limpiar_estado() and st.rerun(); the file is
\* still in the uploader when the script runs again.
LimpiarTodo ==
    /\ u_pc # "idle"
    /\ SetPageState(UploadBlock(uploaded_file, limpiar_estado))
    /\ u_pc' = "limpiar"
    /\ UNCHANGED uploaded_file
    /\ UNCHANGED << pvars, mvars, avars >>

\* The button "Procesar Cruce (con Split)", shown when the last run read the
\* sheets of the stored file: the result is reset, then the cruce returns a
\* table, returns None, or raises.
PressProcess ==
    /\ u_pc # "idle"
    /\ uploaded_file # NoFile
    /\ uploaded_file_obj # NoFile
    /\ sheet_names # << >>
    /\ \E outcome \in { "DataFrame", "None", "raise" } :
          LET state == UploadBlock(uploaded_file, PageState)
              reset == [ state EXCEPT !.processed_successfully = FALSE,
                                      !.df_result = "None" ]
          IN  SetPageState(
                  IF outcome = "DataFrame"
                  THEN [ reset EXCEPT !.df_result = "DataFrame",
                                      !.processed_successfully = TRUE ]
                  ELSE reset )
    /\ u_pc' = "process"
    /\ UNCHANGED uploaded_file
    /\ UNCHANGED << pvars, mvars, avars >>

NextUI ==
    \/ ChooseFile
    \/ RemoveFile
    \/ LimpiarTodo
    \/ PressProcess

SpecUI == InitUI /\ [][NextUI]_vars

(***************************************************************************)
(* Properties of Pooled mode (checked under SpecPooled).                   *)
(***************************************************************************)

\* Sum of "Planilla Cantidad" over a sequence of segments.
RECURSIVE SumCantidad(_)
SumCantidad(rows) ==
    IF rows = << >> THEN 0
    ELSE Head(rows).PlanillaCantidad + SumCantidad(Tail(rows))

\* The segments emitted for the merged row with label i (one processed line).
SegmentsOfLine(i) == SelectSeq(processed_rows, LAMBDA r : r.idx = i)

\* The segments emitted for row k of the Demand table.
SegmentsOfDemandRow(k) == SelectSeq(processed_rows, LAMBDA r : r.src = k)

\* C1 (conservation): for every processed line, the "Planilla Cantidad" of
\* its segments add up to the line's coerced requested quantity, whatever the
\* item's stock (negative and missing stock included).
C1_Conservation ==
    p_pc \in {"loop", "done"} =>
        \A i \in 1..(loop_i - 1) :
            SumCantidad(SegmentsOfLine(i)) = df_merged[i].PlanillaCantidad

\* C4 (non-negative pool): "SAP Restante" is >= 0 in every segment.
C4_RestanteNonNegative ==
    \A j \in 1..Len(processed_rows) : processed_rows[j].SAPRestante >= 0

\* C5 (balance timeline): when two lines of the same item are processed one
\* after the other, the "SAP Restante" of the last segment of the earlier
\* line is the "SAP Antes" of the first segment of the later line.
C5_BalanceTimeline ==
    \A j \in 1..(Len(processed_rows) - 1) :
        ( /\ processed_rows[j].Item = processed_rows[j + 1].Item
          /\ processed_rows[j].idx # processed_rows[j + 1].idx )
        => processed_rows[j].SAPRestante = processed_rows[j + 1].SAPAntes

\* C6 (split cardinality): when the function returns, every row of the
\* Demand table has produced at least one and at most two segments.
C6_OneOrTwoSegments ==
    p_pc = "done" =>
        \A k \in 1..Len(df_desc) : Len(SegmentsOfDemandRow(k)) \in {1, 2}

\* C7 (zero-quantity rule): an iteration of the row loop on a line whose
\* coerced quantity is 0 appends exactly one segment, with Descargable "No",
\* Diferencia 0 and SAP Antes = SAP Restante = the running balance, and
\* leaves that running balance to the next line.
C7_ZeroQuantity ==
    [][ ( /\ p_pc = "loop"
          /\ loop_i <= Len(df_merged)
          /\ loop_i' = loop_i + 1
          /\ df_merged[loop_i].PlanillaCantidad = 0 )
        => LET b == BalanceBefore(loop_i)
               seg == processed_rows'[Len(processed_rows')]
           IN  /\ Len(processed_rows') = Len(processed_rows) + 1
               /\ SubSeq(processed_rows', 1, Len(processed_rows)) = processed_rows
               /\ seg.idx = loop_i
               /\ seg.PlanillaCantidad = 0
               /\ seg.Descargable = "No"
               /\ seg.Diferencia = 0
               /\ seg.SAPAntes = b
               /\ seg.SAPRestante = b
               /\ stock_actual_item' = b ]_vars

\* C7 witness: a zero-quantity line was processed on an item with a non-zero
\* balance, and a later line of the same item has been processed after it.
C7_Witness ==
    \E j \in 1..Len(processed_rows) : \E j2 \in 1..Len(processed_rows) :
        /\ j < j2
        /\ df_merged[processed_rows[j].idx].PlanillaCantidad = 0
        /\ processed_rows[j].SAPAntes > 0
        /\ processed_rows[j2].Item = processed_rows[j].Item
        /\ processed_rows[j2].idx # processed_rows[j].idx

\* The processed lines (positions in df_merged) of an item.
LinesOfItem(item) ==
    { i \in 1..Len(df_merged) : df_merged[i].Item = item }

\* TRUE when the Supply table has no row for the item.
NoSupplyRow(item) == \A k \in 1..Len(df_exist) : df_exist[k].Item # item

\* C11 (no supply row): the function does not end in an error on complete
\* tables; a line whose item has no Supply row gets the initial balance 0;
\* and when such a line is the only line of its item and requests q > 0, it
\* yields exactly one segment: Planilla Cantidad q, SAP Antes 0, Diferencia q,
\* SAP Restante 0, Descargable "No".
C11_NoSupplyRow ==
    /\ p_pc # "error"
    /\ p_pc \in {"loop", "done"} =>
          \A i \in 1..Len(df_merged) :
              NoSupplyRow(df_merged[i].Item) =>
                  /\ df_merged[i].SAP_Inicial_Item = 0
                  /\ ( /\ i < loop_i
                       /\ LinesOfItem(df_merged[i].Item) = {i}
                       /\ df_merged[i].PlanillaCantidad > 0 )
                     => LET segs == SegmentsOfLine(i)
                            q == df_merged[i].PlanillaCantidad
                        IN  /\ Len(segs) = 1
                            /\ segs[1].PlanillaCantidad = q
                            /\ segs[1].SAPAntes = 0
                            /\ segs[1].Diferencia = q
                            /\ segs[1].SAPRestante = 0
                            /\ segs[1].Descargable = "No"

\* C11 witness: the function has returned, and a line requesting more than 0
\* was the only line of an item without Supply row while the Supply table
\* has a row for another item.
C11_Witness ==
    /\ p_pc = "done"
    /\ df_exist # << >>
    /\ \E i \in 1..Len(df_merged) :
          /\ NoSupplyRow(df_merged[i].Item)
          /\ LinesOfItem(df_merged[i].Item) = {i}
          /\ df_merged[i].PlanillaCantidad > 0
          /\ SegmentsOfLine(i) # << >>

\* The segments one iteration of the row loop has appended.
Appended == SubSeq(processed_rows', Len(processed_rows) + 1, Len(processed_rows'))

\* TRUE for a step that is an iteration of the row loop.
LoopIteration ==
    /\ p_pc = "loop"
    /\ loop_i <= Len(df_merged)
    /\ loop_i' = loop_i + 1

\* C17 (sufficient stock): an iteration of the row loop on a line with a
\* non-zero quantity q and a running balance b >= q appends exactly one
\* segment, with Planilla Cantidad q, SAP Antes b, Diferencia 0, SAP Restante
\* b - q and Descargable "Si", and leaves the balance b - q to the next line.
C17_SufficientStock ==
    [][ ( /\ LoopIteration
          /\ df_merged[loop_i].PlanillaCantidad # 0
          /\ BalanceBefore(loop_i) >= df_merged[loop_i].PlanillaCantidad )
        => LET b == BalanceBefore(loop_i)
               q == df_merged[loop_i].PlanillaCantidad
           IN  /\ SubSeq(processed_rows', 1, Len(processed_rows)) = processed_rows
               /\ Len(Appended) = 1
               /\ Appended[1].idx = loop_i
               /\ Appended[1].PlanillaCantidad = q
               /\ Appended[1].SAPAntes = b
               /\ Appended[1].Diferencia = 0
               /\ Appended[1].SAPRestante = b - q
               /\ Appended[1].Descargable = "Si"
               /\ stock_actual_item' = b - q ]_vars

\* C17 witness: a line requesting a positive quantity was served in full from
\* a balance that covers it exactly, and the next line of the item has been
\* processed after it.
C17_Witness ==
    \E j \in 1..(Len(processed_rows) - 1) :
        /\ processed_rows[j].Descargable = "Si"
        /\ processed_rows[j].PlanillaCantidad > 0
        /\ processed_rows[j].PlanillaCantidad = df_merged[processed_rows[j].idx].PlanillaCantidad
        /\ processed_rows[j].SAPAntes = processed_rows[j].PlanillaCantidad
        /\ processed_rows[j + 1].Item = processed_rows[j].Item
        /\ processed_rows[j + 1].idx # processed_rows[j].idx

\* C18 (insufficient stock): an iteration of the row loop on a line
\* requesting q with a running balance b, 0 < b < q, appends exactly two
\* segments in this order: (Planilla Cantidad b, SAP Antes b, Diferencia 0,
\* SAP Restante 0, "Si"), then (q - b, SAP Antes 0, Diferencia q - b, SAP
\* Restante 0, "No"); with b = 0 < q it appends only the deficit segment,
\* carrying the full q.
C18_InsufficientStock ==
    [][ ( /\ LoopIteration
          /\ BalanceBefore(loop_i) >= 0
          /\ BalanceBefore(loop_i) < df_merged[loop_i].PlanillaCantidad )
        => LET b == BalanceBefore(loop_i)
               q == df_merged[loop_i].PlanillaCantidad
               falta == Appended[Len(Appended)]
           IN  /\ SubSeq(processed_rows', 1, Len(processed_rows)) = processed_rows
               /\ Len(Appended) = IF b > 0 THEN 2 ELSE 1
               /\ b > 0 =>
                     /\ Appended[1].idx = loop_i
                     /\ Appended[1].PlanillaCantidad = b
                     /\ Appended[1].SAPAntes = b
                     /\ Appended[1].Diferencia = 0
                     /\ Appended[1].SAPRestante = 0
                     /\ Appended[1].Descargable = "Si"
               /\ falta.idx = loop_i
               /\ falta.PlanillaCantidad = q - b
               /\ falta.SAPAntes = 0
               /\ falta.Diferencia = q - b
               /\ falta.SAPRestante = 0
               /\ falta.Descargable = "No" ]_vars

\* C18 witness: a line was split into a fulfilled segment followed by a
\* deficit segment.
C18_Witness ==
    \E j \in 1..(Len(processed_rows) - 1) :
        /\ processed_rows[j].idx = processed_rows[j + 1].idx
        /\ processed_rows[j].Descargable = "Si"
        /\ processed_rows[j].SAPAntes > 0
        /\ processed_rows[j + 1].Descargable = "No"
        /\ processed_rows[j + 1].Diferencia > 0

\* TRUE when segment d of processed_rows is a deficit segment: the part of a
\* line the balance did not cover.
IsDeficitSegment(d) ==
    /\ processed_rows[d].Descargable = "No"
    /\ processed_rows[d].Diferencia > 0

\* C19 (exhaustion is permanent): once a deficit segment has been emitted for
\* an item, every segment of a later line of that item is produced from the
\* balance 0 and is not "Si", and a later line requesting q > 0 yields exactly
\* one segment: SAP Antes 0, Diferencia q, Descargable "No".
C19_ExhaustionPermanent ==
    \A d \in 1..Len(processed_rows) : \A k \in 1..Len(processed_rows) :
        ( /\ d < k
          /\ IsDeficitSegment(d)
          /\ processed_rows[k].Item = processed_rows[d].Item
          /\ processed_rows[k].idx # processed_rows[d].idx )
        => LET i == processed_rows[k].idx
               q == df_merged[i].PlanillaCantidad
           IN  /\ processed_rows[k].SAPAntes = 0
               /\ processed_rows[k].Descargable # "Si"
               /\ q > 0 =>
                     /\ Len(SegmentsOfLine(i)) = 1
                     /\ processed_rows[k].Diferencia = q
                     /\ processed_rows[k].Descargable = "No"

\* A segment without the positions src and idx: the columns the code holds.
Columns(r) ==
    [ Item |-> r.Item,
      Planilla |-> r.Planilla,
      PlanillaCantidad |-> r.PlanillaCantidad,
      SAP_Inicial_Item |-> r.SAP_Inicial_Item,
      NumPlanilla |-> r.NumPlanilla,
      SAPAntes |-> r.SAPAntes,
      Diferencia |-> r.Diferencia,
      SAPRestante |-> r.SAPRestante,
      Descargable |-> r.Descargable ]

\* The segments of one item among rows, in order, as the code holds them.
SegmentsOfItem(rows, item) ==
    LET sel == SelectSeq(rows, LAMBDA r : r.Item = item)
    IN  [ k \in 1..Len(sel) |-> Columns(sel[k]) ]

\* The rows of a table that belong to the item.
RowsOfItem(table, item) == SelectSeq(table, LAMBDA r : r.Item = item)

\* C20 (item independence): when the function returns, the segments of each
\* item are, column by column and in order, the segments the function
\* produces from the Demand and Supply rows of that item alone; so two calls
\* whose tables agree on an item's rows give that item the same segments,
\* whatever rows of other items are added, removed or changed.
C20_ItemIndependence ==
    p_pc = "done" =>
        /\ processed_rows = CruceRows(df_desc, df_exist)
        /\ \A item \in Items :
            SegmentsOfItem(processed_rows, item)
                = SegmentsOfItem(CruceRows(RowsOfItem(df_desc, item),
                                           RowsOfItem(df_exist, item)), item)

\* C20 witness: the function has returned segments for two items, the first
\* of which ended with a balance above 0, and the Supply table has a row.
C20_Witness ==
    /\ p_pc = "done"
    /\ df_exist # << >>
    /\ \E a \in 1..(Len(processed_rows) - 1) :
          /\ processed_rows[a].Item # processed_rows[a + 1].Item
          /\ processed_rows[a].SAPRestante > 0

\* C23 (requested quantity >= 0): every line that enters the row loop has a
\* converted requested quantity greater than or equal to 0.
C23_QuantityNonNegative ==
    p_pc \in {"loop", "done"} =>
        \A i \in 1..Len(df_merged) : df_merged[i].PlanillaCantidad >= 0

\* The segments emitted so far for an item, in order.
ProcessedOfItem(item) == SelectSeq(processed_rows, LAMBDA r : r.Item = item)

\* The segments among rows that are flagged "Si".
FlaggedSi(rows) == SelectSeq(rows, LAMBDA r : r.Descargable = "Si")

\* C25 (no over-allocation): for every item whose initial stock s (the stock
\* of the first line of its group) is >= 0 and whose requested quantities are
\* all >= 0, the "Planilla Cantidad" of the item's segments flagged "Si" add
\* up to at most s, and to s minus the "SAP Restante" of the item's last
\* segment; this holds after every line processed.
C25_NeverOverAllocates ==
    p_pc \in {"loop", "done"} =>
        \A item \in Items :
            LET segs == ProcessedOfItem(item)
                lines == LinesOfItem(item)
            IN  ( /\ segs # << >>
                  /\ segs[1].SAP_Inicial_Item >= 0
                  /\ \A i \in lines : df_merged[i].PlanillaCantidad >= 0 )
                => /\ segs[1].SAPAntes = segs[1].SAP_Inicial_Item
                   /\ SumCantidad(FlaggedSi(segs)) <= segs[1].SAP_Inicial_Item
                   /\ SumCantidad(FlaggedSi(segs))
                        = segs[1].SAP_Inicial_Item - segs[Len(segs)].SAPRestante

\* C25 witness: the function has returned; an item with a stock above 0 has
\* two lines, the first served in full, the second left with a deficit.
C25_Witness ==
    /\ p_pc = "done"
    /\ \E item \in Items :
          LET segs == ProcessedOfItem(item)
          IN  /\ Len(segs) >= 2
              /\ segs[1].SAP_Inicial_Item > 0
              /\ segs[1].Descargable = "Si"
              /\ segs[1].idx # segs[Len(segs)].idx
              /\ IsDeficitSegment(CHOOSE d \in 1..Len(processed_rows) :
                                      processed_rows[d] = segs[Len(segs)])
              /\ \A i \in LinesOfItem(item) : df_merged[i].PlanillaCantidad > 0

\* TRUE when the sheet name starts with decimal digits.
NumericallyNamed(planilla) == LeadingDigits(planilla) > 0

\* C16 (priority order), checked under SpecPriority: among the lines of one
\* item, every segment of a line whose sheet name starts with digits comes
\* before every segment of a line whose name does not, and a line without
\* leading digits is processed only when all numerically named lines of its
\* item have been.
C16_NumericBeforeNonNumeric ==
    p_pc \in {"loop", "done"} =>
        /\ \A a \in 1..Len(processed_rows) : \A b \in 1..Len(processed_rows) :
              ( /\ processed_rows[a].Item = processed_rows[b].Item
                /\ NumericallyNamed(processed_rows[a].Planilla)
                /\ ~NumericallyNamed(processed_rows[b].Planilla) )
              => a < b
        /\ \A i \in 1..Len(df_merged) : \A j \in 1..Len(df_merged) :
              ( /\ df_merged[i].Item = df_merged[j].Item
                /\ NumericallyNamed(df_merged[i].Planilla)
                /\ ~NumericallyNamed(df_merged[j].Planilla)
                /\ j < loop_i )
              => i < loop_i

(***************************************************************************)
(* Properties of Pooled mode on incomplete tables (under SpecSchema).      *)
(***************************************************************************)

\* TRUE when a required column is missing from the Demand or Supply table.
ColumnMissing ==
    \/ ~(EXPECTED_COLS_DESC \subseteq desc_columns)
    \/ ~(EXPECTED_COLS_EXIST \subseteq exist_columns)

\* C13 (schema error): called with a required column missing from the Demand
\* or the Supply table, the function's only step is the error return: it
\* reports a required column that the named table lacks, leaves both input
\* tables as they were (no numeric conversion), produces no segment and
\* returns None; nothing happens after that return.
C13_SchemaError ==
    [][ /\ ( p_pc = "start" /\ ColumnMissing )
           => /\ p_pc' = "error"
              /\ df_desc' = df_desc
              /\ df_exist' = df_exist
              /\ df_merged' = << >>
              /\ processed_rows' = << >>
              /\ df_final' = "None"
              /\ st_error' # NoMessage
              /\ \/ /\ st_error'.datos = "descarga"
                    /\ st_error'.columna \in EXPECTED_COLS_DESC \ desc_columns
                 \/ /\ st_error'.datos = "existencia"
                    /\ st_error'.columna \in EXPECTED_COLS_EXIST \ exist_columns
        /\ p_pc # "error" ]_vars

\* C13 witness: the function has returned on a column missing from the
\* Supply table, the Demand table being complete, with raw cells in both
\* tables still in place.
C13_Witness ==
    /\ p_pc = "error"
    /\ st_error # NoMessage
    /\ st_error.datos = "existencia"
    /\ df_desc[1].PlanillaCantidad \in RawCells
    /\ df_exist # << >>
    /\ df_final = "None"

(***************************************************************************)
(* Properties of Matched mode (checked under SpecMatched).                 *)
(***************************************************************************)

\* An affirmative flag as the interface states it: "SI" or "SI" with an
\* accent, in any letter case and with surrounding blanks.
IsAffirmative(cell) ==
    StrUpper(StrStrip(cell)) \in { << "S", "I" >>, << "S", "I_ACUTE" >> }

\* The rows of result_rows produced by demand line j.
RowsOfLine(j) ==
    LET at == { k \in 1..Len(result_rows) : origin[k] = j }
    IN  SelectSeq([ k \in 1..Len(result_rows) |->
                        [ pos |-> k, row |-> result_rows[k] ] ],
                  LAMBDA e : e.pos \in at)

\* The index as load_master built it.
LoadedIndex == BuildIndex(master_df, << >>)

\* Demand line j is the first line with its key, and the key is in the index
\* load_master built: the line that pops the master record.
MatchesRecord(j) ==
    /\ HasKey(LoadedIndex, KeyOf(dynamic_df[j]))
    /\ \A a \in 1..(j - 1) : KeyOf(dynamic_df[a]) # KeyOf(dynamic_df[j])

\* The demand lines process() has gone through.
ProcessedLines ==
    IF m_pc \in {"process", "processed", "saved", "KeyError"}
    THEN 1..(dyn_i - 1) ELSE {}

\* C2 (eligibility): every row emitted for a matched demand line whose
\* Descargable cell is affirmative has the allocation applied: it carries
\* "Cant Desc." and "CRUZADO".
C2_AffirmativeIsApplied ==
    \A j \in ProcessedLines :
        ( MatchesRecord(j) /\ IsAffirmative(dynamic_file[j].Descargable) )
        => /\ Len(RowsOfLine(j)) >= 1
           /\ \A k \in 1..Len(RowsOfLine(j)) :
                {"CantDesc", "CRUZADO"} \subseteq DOMAIN RowsOfLine(j)[k].row

\* C3 (matched consumption): the key of a processed demand line is no longer
\* in master_index, and all rows derived from demand lines with one key come
\* from a single line: a later line with the same key emits nothing.
C3_ConsumedOnce ==
    /\ \A j \in ProcessedLines : ~HasKey(master_index, KeyOf(dynamic_df[j]))
    /\ \A a \in 1..Len(result_rows) : \A b \in 1..Len(result_rows) :
          ( /\ origin[a] # 0
            /\ origin[b] # 0
            /\ KeyOf(result_rows[a]) = KeyOf(result_rows[b]) )
          => origin[a] = origin[b]
    /\ \A j \in ProcessedLines : ~MatchesRecord(j) => RowsOfLine(j) = << >>

\* C3 witness: two processed demand lines share a key that was in the index;
\* the first produced a row.
C3_Witness ==
    \E a \in ProcessedLines : \E b \in ProcessedLines :
        /\ a < b
        /\ KeyOf(dynamic_df[a]) = KeyOf(dynamic_df[b])
        /\ MatchesRecord(a)
        /\ RowsOfLine(a) # << >>

\* C12 (absent key): an iteration of the loop of process() on a demand line
\* whose (CODIGO OBRA SGT, Item) key is not in master_index appends no row
\* and leaves master_index and result_rows as they were.
C12_AbsentKeySkipped ==
    [][ ( /\ m_pc = "process"
          /\ dyn_i <= Len(dynamic_df)
          /\ dyn_i' = dyn_i + 1
          /\ ~HasKey(master_index, KeyOf(dynamic_df[dyn_i])) )
        => /\ master_index' = master_index
           /\ result_rows' = result_rows
           /\ origin' = origin ]_vars

\* C12 witness: the line processed last has a key that load_master never
\* indexed, after an earlier line has emitted a row.
C12_Witness ==
    /\ m_pc = "process"
    /\ dyn_i > 1
    /\ ~HasKey(LoadedIndex, KeyOf(dynamic_df[dyn_i - 1]))
    /\ result_rows # << >>

\* C14 (job-number padding), checked under SpecPadding: the job number the
\* constructor stored (padded once) is left as it is by the padding of
\* save() (padded twice), and it is exactly 2 characters long.
C14_PaddedToTwo ==
    m_pc # "idle" =>
        /\ Zfill(new_job_number, 2) = new_job_number
        /\ Len(new_job_number) = 2

\* C15 (run metadata): every row emitted for a matched demand line, the
\* unchanged row of a non-eligible line included, carries OBSERVACION,
\* NUEVA OBRA, NUEVO TRABAJO and "OBRA - TRAB - ITEM", the label being the
\* new work order, the padded job number, "-" and the row's Item.
C15_EveryRowStamped ==
    \A k \in 1..Len(result_rows) :
        origin[k] # 0 =>
            /\ { "OBSERVACION", "NUEVA_OBRA", "NUEVO_TRABAJO", "OBRA_TRAB_ITEM" }
                  \subseteq DOMAIN result_rows[k]
            /\ result_rows[k].OBSERVACION = observation
            /\ result_rows[k].NUEVA_OBRA = new_work_order
            /\ result_rows[k].NUEVO_TRABAJO = new_job_number
            /\ result_rows[k].OBRA_TRAB_ITEM =
                  << new_work_order, new_job_number, "-", result_rows[k].Item >>

\* C21 (non-eligible line): a processed demand line that matches a master
\* record and whose flag is not affirmative has emitted exactly one row, equal
\* to the master record as loaded (SALDO unchanged, no "Cant Desc."); the
\* record is gone from master_index, and result_rows holds no other row with
\* its key, the pass-through rows at the end of process() included.
C21_NonEligibleUnchanged ==
    \A j \in ProcessedLines :
        ( MatchesRecord(j) /\ ~IsAffirmative(dynamic_file[j].Descargable) )
        => LET key == KeyOf(dynamic_df[j])
               rs == RowsOfLine(j)
           IN  /\ Len(rs) = 1
               /\ rs[1].row = IndexGet(LoadedIndex, key)
               /\ rs[1].row.SALDO = IndexGet(LoadedIndex, key).SALDO
               /\ "CantDesc" \notin DOMAIN rs[1].row
               /\ ~HasKey(master_index, key)
               /\ Cardinality({ k \in 1..Len(result_rows) :
                                   KeyOf(result_rows[k]) = key }) = 1

\* C21 witness: process() has ended; a line with a flag that is not
\* affirmative matched a record, and another record was appended as
\* unmatched supply.
C21_Witness ==
    /\ m_pc = "processed"
    /\ \E j \in ProcessedLines :
          /\ MatchesRecord(j)
          /\ ~IsAffirmative(dynamic_file[j].Descargable)
    /\ \E k \in 1..Len(result_rows) : origin[k] = 0

\* C22 (ordering), checked under SpecOrder: every row derived from a demand
\* line has that line's key; the rows derived from demand lines stand in
\* result_rows in the order of their lines; the two rows of a split are the
\* used row ("SI") immediately followed by the deficit row ("NO"); and every
\* demand-derived row precedes every pass-through master record.
C22_InputOrder ==
    \A a \in 1..Len(result_rows) :
        /\ origin[a] # 0 => KeyOf(result_rows[a]) = KeyOf(dynamic_df[origin[a]])
        /\ \A b \in 1..Len(result_rows) :
              a < b =>
                /\ ( origin[a] # 0 /\ origin[b] # 0 ) => origin[a] <= origin[b]
                /\ origin[a] = 0 => origin[b] = 0
                /\ ( origin[a] # 0 /\ origin[a] = origin[b] ) =>
                      /\ b = a + 1
                      /\ result_rows[a].CRUZADO = "SI"
                      /\ result_rows[b].CRUZADO = "NO"

\* C22 witness: process() has ended with rows of two different demand lines
\* followed by a pass-through record, the first line's key standing behind
\* the second's in the master file.
C22_Witness ==
    /\ m_pc = "processed"
    /\ Len(result_rows) = 3
    /\ origin = << 1, 2, 0 >>
    /\ KeyOf(master_file[1]) = KeyOf(dynamic_file[2])
    /\ KeyOf(master_file[2]) = KeyOf(dynamic_file[1])

\* A row without its NUEVO TRABAJO cell, the one cell save() rewrites.
WithoutJob(row) == [ f \in DOMAIN row \ {"NUEVO_TRABAJO"} |-> row[f] ]

\* C24 (finishing pass): save() ends by writing a table; the table has no two
\* rows equal in every column and no row without CODIGO OBRA SGT, and every
\* row of result_rows that has a CODIGO OBRA SGT is in it.
C24_SavedTable ==
    /\ m_pc # "KeyError"
    /\ m_pc = "saved" =>
          /\ \A a \in 1..Len(output_file) : \A b \in 1..Len(output_file) :
                output_file[a] = output_file[b] => a = b
          /\ \A a \in 1..Len(output_file) : output_file[a].CODIGO_OBRA_SGT # NaN
          /\ \A k \in 1..Len(result_rows) :
                result_rows[k].CODIGO_OBRA_SGT # NaN =>
                    \E a \in 1..Len(output_file) :
                        WithoutJob(output_file[a]) = WithoutJob(result_rows[k])

\* The last row of master_df, in table order, with the given key.
LastRowOf(key) ==
    LET at == { k \in 1..Len(master_df) : KeyOf(master_df[k]) = key }
    IN  master_df[CHOOSE k \in at : \A o \in at : o <= k]

\* C26 (master load): right after load_master, master_index holds exactly one
\* record for every key of the master table, equal to the last row with that
\* key; from then on, a row of the master table that differs from the last
\* row with its key is neither in master_index nor in result_rows, and
\* result_rows has at most one row for the key.
C26_LastRowWins ==
    /\ m_pc = "master_loaded" =>
          \A r \in 1..Len(master_df) :
              LET key == KeyOf(master_df[r])
              IN  /\ Cardinality({ k \in 1..Len(master_index) :
                                     KeyOf(master_index[k]) = key }) = 1
                  /\ IndexGet(master_index, key) = LastRowOf(key)
    /\ m_pc \notin {"idle", "init"} =>
          \A r \in 1..Len(master_df) :
              LET key == KeyOf(master_df[r])
              IN  /\ Cardinality({ k \in 1..Len(result_rows) :
                                     KeyOf(result_rows[k]) = key }) <= 1
                  /\ master_df[r] # LastRowOf(key) =>
                        /\ \A k \in 1..Len(master_index) :
                              master_index[k] # master_df[r]
                        /\ \A k \in 1..Len(result_rows) :
                              result_rows[k] # master_df[r]

\* C26 witness: process() has ended; the master table has two rows with one
\* key and different SALDO, and result_rows has a row with that key.
C26_Witness ==
    /\ m_pc = "processed"
    /\ \E a \in 1..Len(master_df) : \E b \in 1..Len(master_df) :
          /\ a < b
          /\ KeyOf(master_df[a]) = KeyOf(master_df[b])
          /\ master_df[a].SALDO # master_df[b].SALDO
          /\ \E k \in 1..Len(result_rows) :
                KeyOf(result_rows[k]) = KeyOf(master_df[a])

\* C27 (balance accounting): for every processed demand line that matches a
\* master record and has an affirmative flag, the SALDO of the last row
\* emitted for it is the record's original SALDO minus the requested
\* quantity, a negative original SALDO included.
C27_SaldoCarried ==
    \A j \in ProcessedLines :
        ( MatchesRecord(j) /\ IsAffirmative(dynamic_file[j].Descargable) )
        => LET rs == RowsOfLine(j)
               saldo == IndexGet(LoadedIndex, KeyOf(dynamic_df[j])).SALDO
           IN  /\ rs # << >>
               /\ rs[Len(rs)].row.SALDO = saldo - dynamic_df[j].PlanillaCantidad

\* C8 (sufficient balance): a matched demand line with an affirmative flag
\* and SALDO >= requested emits exactly one row with "Cant Desc." = requested,
\* SALDO = SALDO - requested, and CRUZADO = "SI" exactly when that is 0.
C8_SufficientBalance ==
    \A j \in ProcessedLines :
        LET q == dynamic_df[j].PlanillaCantidad
            rs == RowsOfLine(j)
        IN  ( /\ MatchesRecord(j)
              /\ IsAffirmative(dynamic_file[j].Descargable)
              /\ IndexGet(LoadedIndex, KeyOf(dynamic_df[j])).SALDO >= q )
            => LET saldo == IndexGet(LoadedIndex, KeyOf(dynamic_df[j])).SALDO
               IN  /\ Len(rs) = 1
                   /\ {"CantDesc", "CRUZADO"} \subseteq DOMAIN rs[1].row
                   /\ rs[1].row.CantDesc = q
                   /\ rs[1].row.SALDO = saldo - q
                   /\ (rs[1].row.CRUZADO = "SI") <=> (saldo - q = 0)
                   /\ rs[1].row.CRUZADO \in {"SI", "NO"}

\* C9 (insufficient balance): a matched demand line with an affirmative flag
\* and SALDO < requested emits exactly two rows: used = max(SALDO, 0) with
\* SALDO 0 and CRUZADO "SI", then the deficit requested - used with SALDO
\* -(requested - used) and CRUZADO "NO".
C9_InsufficientBalance ==
    \A j \in ProcessedLines :
        LET q == dynamic_df[j].PlanillaCantidad
            rs == RowsOfLine(j)
        IN  ( /\ MatchesRecord(j)
              /\ IsAffirmative(dynamic_file[j].Descargable)
              /\ IndexGet(LoadedIndex, KeyOf(dynamic_df[j])).SALDO < q )
            => LET saldo == IndexGet(LoadedIndex, KeyOf(dynamic_df[j])).SALDO
                   used == IF saldo > 0 THEN saldo ELSE 0
               IN  /\ Len(rs) = 2
                   /\ rs[2].pos = rs[1].pos + 1
                   /\ {"CantDesc", "CRUZADO"} \subseteq DOMAIN rs[1].row
                   /\ {"CantDesc", "CRUZADO"} \subseteq DOMAIN rs[2].row
                   /\ rs[1].row.CantDesc = used
                   /\ rs[1].row.SALDO = 0
                   /\ rs[1].row.CRUZADO = "SI"
                   /\ rs[2].row.CantDesc = q - used
                   /\ rs[2].row.SALDO = 0 - (q - used)
                   /\ rs[2].row.CRUZADO = "NO"

\* Keys of the loaded master records that no demand line has.
UnmatchedKeys ==
    { KeyOf(LoadedIndex[k]) : k \in 1..Len(LoadedIndex) }
        \ { KeyOf(dynamic_df[j]) : j \in 1..Len(dynamic_df) }

\* C10 (unmatched supply): a master record whose key no demand line has is
\* still in master_index when the demand loop ends, and after process() it is
\* in result_rows exactly once, behind every demand-derived row, equal to the
\* loaded record (same fields, same values, nothing added).
C10_UnmatchedPassThrough ==
    /\ ( m_pc = "process" /\ dyn_i > Len(dynamic_df) ) =>
          \A key \in UnmatchedKeys :
              /\ HasKey(master_index, key)
              /\ IndexGet(master_index, key) = IndexGet(LoadedIndex, key)
    /\ m_pc \in {"processed", "saved", "KeyError"} =>
          \A key \in UnmatchedKeys :
              LET at == { k \in 1..Len(result_rows) : KeyOf(result_rows[k]) = key }
              IN  /\ Cardinality(at) = 1
                  /\ \A k \in at :
                        /\ result_rows[k] = IndexGet(LoadedIndex, key)
                        /\ origin[k] = 0
                        /\ \A d \in 1..Len(result_rows) : origin[d] # 0 => d < k

\* C10 witness: process() has ended with a record no demand line matched and
\* a row derived from a demand line.
C10_Witness ==
    /\ m_pc = "processed"
    /\ UnmatchedKeys # {}
    /\ \E d \in 1..Len(result_rows) : origin[d] # 0

(***************************************************************************)
(* Properties of authentication (checked under SpecAuth).                  *)
(***************************************************************************)

\* C28 (login error path): a call of login that returns failure leaves the
\* session without "authenticated" and leaves users.json as it was.
C28_FailedLoginNoEffect ==
    [][ ( a_pc' = "login" /\ ~login_result'.ok )
        => /\ ~Authenticated(session')
           /\ session' = session
           /\ users_file' = users_file ]_vars

\* What a call of is_authenticated does to the session, whatever way it
\* ends: more than session_timeout seconds after the last successful check or
\* login the session keys are cleared by logout; within session_timeout
\* seconds the window restarts at this check; without "authenticated" nothing
\* changes.
CheckEffect ==
    /\ ( Authenticated(session) /\ now - session.auth_time > session_timeout )
          => /\ DOMAIN session' \cap session_keys = {}
             /\ session'.logged_out
             /\ ~Authenticated(session')
    /\ ( Authenticated(session) /\ now - session.auth_time <= session_timeout )
          => /\ check_result' = "True"
             /\ Authenticated(session')
             /\ session'.auth_time = now
    /\ ~Authenticated(session)
          => /\ check_result' = "False"
             /\ session' = session

\* C29 as stated (session expiry): a check made more than 300 seconds after
\* the previous successful check or login returns False and clears the
\* session keys; a check within 300 seconds returns True and restarts the
\* window; once expired, every check returns False until a new login.
C29_ExpiryReturnsFalse ==
    [][ a_pc' = "is_authenticated"
        => /\ CheckEffect
           /\ ( Authenticated(session) /\ now - session.auth_time > session_timeout )
                 => check_result' = "False" ]_vars

\* C29 amended (session expiry): as C29, but the expiring check does not
\* return True: it returns False, or st.rerun() at the end of logout stops
\* the script run before the return.
C29_SessionExpiry ==
    [][ a_pc' = "is_authenticated"
        => /\ CheckEffect
           /\ ( Authenticated(session) /\ now - session.auth_time > session_timeout )
                 => check_result' \in { "False", "Rerun" } ]_vars

\* C29 witness: after a login and a check exactly session_timeout seconds
\* later that returned True, a check more than session_timeout seconds after
\* that one has expired the session.
C29_Witness ==
    /\ a_pc = "is_authenticated"
    /\ login_result.ok
    /\ check_result = "Rerun"
    /\ "logged_out" \in DOMAIN session
    /\ "authenticated" \notin DOMAIN session
    /\ now = session_timeout + session_timeout + 1
    /\ \A u \in DOMAIN users_file : users_file[u].last_login = 0

(***************************************************************************)
(* Properties of the result state of the page (checked under SpecUI).      *)
(***************************************************************************)
\* The user has put in the uploader a file that is not the stored one.
NewUpload ==
    /\ uploaded_file' # uploaded_file
    /\ uploaded_file' # NoFile
    /\ uploaded_file' # uploaded_file_obj

\* Both result keys are back to (False, None).
ResultReset == ~processed_successfully /\ df_result = "None"

\* C30 (UI result state): after any sequence of uploads, presses of the
\* process button and "Limpiar Todo", processed_successfully is True only if
\* df_result is not None; a new upload, a run that returned None or raised,
\* and limpiar_estado each leave both at (False, None).
C30_ResultState ==
    [][ /\ processed_successfully' => df_result' # "None"
        /\ NewUpload => ResultReset'
        /\ ( u_pc' = "process" /\ df_result' = "None" ) => ResultReset'
        /\ u_pc' = "limpiar" => ResultReset' ]_vars

====
